---- MODULE Spec2Model ----
(***************************************************************************)
(* A model of the thermal control loop of the smoke repository:            *)
(*   - NHistory, the fixed-capacity sample history (smoke/maintain.py)     *)
(*   - find_trend / simple_slope, the trend estimator (smoke/trend.py)     *)
(*   - the deviation/trend decision tree of maintain (smoke/maintain.py)   *)
(*   - Fan.set_speed (smoke/fan.py)                                        *)
(*   - ChannelSPMCAsync, ChannelSPMCThreaded (smoke/pubsub.py)             *)
(*   - Probes, the probe slots and their designations (smoke/thermistor.py)*)
(*                                                                         *)
(* Python floats are modelled as exact rationals <<numerator,denominator>> *)
(* in lowest terms with a positive denominator; samples, targets and       *)
(* x-spacings are integers.  A raised Python exception is a value: every   *)
(* call result is a record [exc |-> name-or-"none", val |-> rational].     *)
(*                                                                         *)
(* The components are checked under specifications that share the          *)
(* variables: SpecHistory, SpecTrend, SpecPolicy (the decision tree),      *)
(* SpecLoop (main and maintain as written), SpecFan (Fan.set_speed),       *)
(* SpecPubSub (the channels of smoke/pubsub.py) and SpecProbes (Probes).   *)
(***************************************************************************)
EXTENDS Integers, Sequences, FiniteSets

VARIABLES
    h_values,      \* NHistory._values
    h_max,         \* NHistory._max
    pushed,        \* every value given to push so far, in call order (history variable)
    y_values,      \* find_trend's argument y_values
    delta_x,       \* find_trend's argument delta_x
    points,        \* the list of (x, y) tuples handed to simple_slope
    called,        \* which estimator entry point has been called
    result,        \* what that call returned or raised
    pc,            \* position of maintain's loop body
    target,        \* maintain's argument target
    current_temp,  \* maintain's local current_temp
    trend,         \* maintain's local trend
    diff,          \* maintain's local diff
    duty,          \* the fan's PWM duty cycle (Fan._fan)
    duty_before,   \* the duty cycle when the tick began (history variable)
    cmds,          \* the levels passed to fan.set_speed in this tick, in order
    cmd_lines,     \* the source line of each of these set_speed calls
    exc,           \* the exception that ended the last call ("none" if it returned)
    pwm,           \* the fan's PWM output: "running" after start(), "stopped" after stop()
    food_temp,     \* what the food probe reads when the status lines print it
    air_read,      \* the outcome of the last air.get_temp_c() of line 89
    mode,          \* which channel class is in use: "async" or "threaded"
    subs,          \* the channel's _subs: the subscribed callables, in order
    pub_pc,        \* position of pub and of its caller
    pub_arg,       \* the argument of the pub call
    tasks,         \* per future / thread of the pub call: its callable and its state
    joined,        \* how many of pub's threads the caller has joined
    res,           \* what the subscribers have recorded: <<callable, arg>>, in order
    probes,        \* Probes._probes: per slot None or a Probe with its _num and _name
    air_probe,     \* Probes._air_probe: a probe number, 0 for None
    target_probe,  \* Probes._target_probe: a probe number, 0 for None
    p_call,        \* the last Probes method called and its argument
    p_exc,         \* the exception that call raised ("none" if it returned)
    got,           \* what the last get_air_probe / get_target_probe returned
    adc,           \* per channel, the temperature its probe reads during temps()
    temps_out      \* what the last temps() returned: key -> value

histVars   == <<h_values, h_max, pushed>>
trendVars  == <<y_values, delta_x, points, called, result>>
policyVars == <<pc, target, current_temp, trend, diff, duty, duty_before, cmds,
                cmd_lines>>
loopVars   == <<exc, pwm, food_temp, air_read>>
pubsubVars == <<mode, subs, pub_pc, pub_arg, tasks, joined, res>>
probeVars  == <<probes, air_probe, target_probe, p_call, p_exc, got, adc,
                temps_out>>
vars       == <<h_values, h_max, pushed, y_values, delta_x, points, called, result,
                pc, target, current_temp, trend, diff, duty, duty_before, cmds,
                cmd_lines,
                exc, pwm, food_temp, air_read,
                mode, subs, pub_pc, pub_arg, tasks, joined, res,
                probes, air_probe, target_probe, p_call, p_exc, got, adc,
                temps_out>>

-----------------------------------------------------------------------------
(* Bounds of the model.                                                    *)

MaxCap    == 3   \* largest NHistory capacity explored
MaxPushes == 5   \* longest sequence of push calls explored
MaxSample == 2   \* pushed samples range over 0..MaxSample
MaxLen    == 3   \* longest series given to the trend estimator
MaxY      == 2   \* y values of a series range over 0..MaxY
MaxDX     == 2   \* x-spacings range over 0..MaxDX

-----------------------------------------------------------------------------
(* Exact rational arithmetic standing for Python's float arithmetic.       *)

Abs(i) == IF i < 0 THEN 0 - i ELSE i

RECURSIVE GCD(_, _)
GCD(a, b) == IF b = 0 THEN a ELSE GCD(b, a % b)

\* the float n/d, d # 0, in lowest terms
RNorm(n, d) ==
    LET g == GCD(Abs(n), Abs(d))
        s == IF d < 0 THEN 0 - 1 ELSE 1
    IN  <<(s * n) \div g, (s * d) \div g>>

R(i)       == <<i, 1>>
RAdd(a, b) == RNorm(a[1] * b[2] + b[1] * a[2], a[2] * b[2])
RSub(a, b) == RNorm(a[1] * b[2] - b[1] * a[2], a[2] * b[2])
RMul(a, b) == RNorm(a[1] * b[1], a[2] * b[2])
RLt(a, b)  == a[1] * b[2] < b[1] * a[2]
RAbs(a)    == <<Abs(a[1]), a[2]>>

\* a function's outcome: a returned float, or a raised exception
Return(v)  == [exc |-> "none", val |-> v]
Raise(e)   == [exc |-> e, val |-> R(0)]
NoResult   == [exc |-> "not called", val |-> R(0)]

\* a / b on floats: ZeroDivisionError when b is 0
RDiv(a, b) ==
    IF b[1] = 0 THEN Raise("ZeroDivisionError")
    ELSE Return(RNorm(a[1] * b[2], a[2] * b[1]))

RECURSIVE sum(_)
sum(s) == IF s = <<>> THEN R(0) ELSE RAdd(Head(s), sum(Tail(s)))

-----------------------------------------------------------------------------
(* NHistory (smoke/maintain.py).                                           *)

\* a plausible slip: the overflow check dropped
push_no_evict(values, max, value) == Append(values, value)

\* a plausible slip: pop() in place of pop(0), evicting the newest sample
push_pop_last(values, max, value) ==
    LET appended == Append(values, value)
    IN  IF Len(appended) > max
        THEN SubSeq(appended, 1, Len(appended) - 1)
        ELSE appended

\* NHistory.push: the contents after push(value)
push(values, max, value) ==
    LET appended == Append(values, value)
    IN  IF Len(appended) > max THEN Tail(appended) ELSE appended

\* NHistory.get_values
get_values == h_values

PolicyIdle ==
    /\ pc = "idle" /\ target = 0 /\ current_temp = 0 /\ trend = R(0)
    /\ diff = 0 /\ duty = 0 /\ duty_before = 0 /\ cmds = <<>>
    /\ cmd_lines = <<>>

LoopIdle ==
    /\ exc = "none" /\ pwm = "none" /\ food_temp = 0 /\ air_read = NoResult

PubSubIdle ==
    /\ mode = "idle" /\ subs = <<>> /\ pub_pc = "idle" /\ pub_arg = "none"
    /\ tasks = <<>> /\ joined = 0 /\ res = <<>>

ProbesIdle ==
    /\ probes = <<>> /\ air_probe = 0 /\ target_probe = 0
    /\ p_call = <<"none", 0>> /\ p_exc = "none" /\ got = <<>> /\ adc = <<>>
    /\ temps_out = <<>>

TrendIdle ==
    /\ y_values = <<>> /\ delta_x = 0 /\ points = <<>>
    /\ called = "idle" /\ result = NoResult

HistoryIdle ==
    /\ h_values = <<>> /\ h_max = 0 /\ pushed = <<>>

\* NHistory.__init__(n): any capacity, unchecked by the constructor
InitHistory ==
    /\ h_values = <<>>
    /\ h_max \in 0..MaxCap
    /\ pushed = <<>>
    /\ TrendIdle
    /\ PolicyIdle
    /\ LoopIdle
    /\ PubSubIdle
    /\ ProbesIdle

Push ==
    /\ Len(pushed) < MaxPushes
    /\ \E value \in 0..MaxSample :
          /\ h_values' = push(h_values, h_max, value)
          /\ pushed' = Append(pushed, value)
    /\ UNCHANGED <<h_max>>
    /\ UNCHANGED trendVars
    /\ UNCHANGED policyVars
    /\ UNCHANGED loopVars
    /\ UNCHANGED pubsubVars
    /\ UNCHANGED probeVars

NextHistory == Push

SpecHistory == InitHistory /\ [][NextHistory]_vars

Min(a, b) == IF a < b THEN a ELSE b

\* C1: for a capacity >= 1 the number of stored samples never exceeds the
\* capacity, and no push makes the buffer shorter.
C1_LengthBounded ==
    /\ [](h_max >= 1 => Len(get_values) <= h_max)
    /\ [][h_max >= 1 => Len(h_values') >= Len(h_values)]_vars

\* a full buffer has taken one more push and kept its length
C1_Witness ==
    /\ h_max >= 1
    /\ Len(pushed) > h_max
    /\ Len(get_values) = h_max

\* C2: after m pushes onto a buffer of capacity c >= 1, get_values() is the
\* last min(m, c) pushed samples, oldest first.
C2_LastSamples ==
    h_max >= 1 =>
        get_values = SubSeq(pushed,
                            Len(pushed) - Min(Len(pushed), h_max) + 1,
                            Len(pushed))

\* capacity + 2 pushes of samples that differ, onto a capacity of 2 or more
C2_Witness ==
    /\ h_max >= 2
    /\ Len(pushed) = h_max + 2
    /\ pushed[1] # pushed[Len(pushed)]
    /\ get_values[1] # get_values[Len(get_values)]

-----------------------------------------------------------------------------
(* The trend estimator (smoke/trend.py).                                   *)

\* statistics.fmean of a non-empty list
fmean(data) == RDiv(sum(data), R(Len(data))).val

square(a) == RMul(a, a)

\* a plausible slip: the final y value is left out of y_values, so the mean
\* and the variance cover the first n values only
slope_first_n_only(values) ==
    LET length   == Len(values) - 1
        delta_ys == [i \in 1..length |-> R(values[i + 1][2] - values[i][2])]
        delta_xs == [i \in 1..length |-> R(values[i + 1][1] - values[i][1])]
        ys       == [i \in 1..length |-> R(values[i][2])]
        avg_delta_y == RDiv(sum(delta_ys), R(length))
        avg_delta_x == RDiv(sum(delta_xs), R(length))
        avg_slope   == RDiv(avg_delta_y.val, avg_delta_x.val)
        avg_y       == fmean(ys)
        variance_y  ==
            RDiv(sum([i \in 1..Len(ys) |-> square(RSub(ys[i], avg_y))]), R(length))
    IN  IF avg_delta_y.exc # "none" THEN avg_delta_y
        ELSE IF avg_slope.exc # "none" THEN avg_slope
        ELSE Return(RMul(avg_slope.val,
                         RAdd(R(1), RDiv(variance_y.val, R(100)).val)))

\* a plausible slip: the plain average slope, the variance factor forgotten
slope_no_variance(values) ==
    LET length   == Len(values) - 1
        delta_ys == [i \in 1..length |-> R(values[i + 1][2] - values[i][2])]
        delta_xs == [i \in 1..length |-> R(values[i + 1][1] - values[i][1])]
        avg_delta_y == RDiv(sum(delta_ys), R(length))
        avg_delta_x == RDiv(sum(delta_xs), R(length))
        avg_slope   == RDiv(avg_delta_y.val, avg_delta_x.val)
    IN  IF avg_delta_y.exc # "none" THEN avg_delta_y
        ELSE avg_slope

\* simple_slope past its guard: the deltas, their averages, the mean and the
\* variance of the y values, and the returned product
slope_body(values) ==
    LET length   == Len(values) - 1
        \* the loop over values[1:], pairing each point with its predecessor
        delta_ys == [i \in 1..length |-> R(values[i + 1][2] - values[i][2])]
        delta_xs == [i \in 1..length |-> R(values[i + 1][1] - values[i][1])]
        \* y_prev of every pair, then the final point's y: all length+1 values
        ys       == [i \in 1..(length + 1) |->
                        IF i <= length THEN R(values[i][2])
                        ELSE R(values[Len(values)][2])]
        avg_delta_y == RDiv(sum(delta_ys), R(length))
        avg_delta_x == RDiv(sum(delta_xs), R(length))
        avg_slope   == RDiv(avg_delta_y.val, avg_delta_x.val)
        avg_y       == fmean(ys)
        variance_y  ==
            RDiv(sum([i \in 1..Len(ys) |-> square(RSub(ys[i], avg_y))]), R(length))
    IN  IF avg_delta_y.exc # "none" THEN avg_delta_y
        ELSE IF avg_slope.exc # "none" THEN avg_slope
        ELSE Return(RMul(avg_slope.val,
                         RAdd(R(1), RDiv(variance_y.val, R(100)).val)))

\* a plausible slip: the guard tests length < 0, letting one point through
simple_slope_weak_guard(values) ==
    LET length == Len(values) - 1
    IN  IF length < 0 THEN Return(R(0)) ELSE slope_body(values)

\* simple_slope
simple_slope(values) ==
    LET length == Len(values) - 1
    IN  IF length < 1 THEN Return(R(0)) ELSE slope_body(values)

\* the list comprehension of find_trend: (x0 + delta_x * i, y) for i, y
enumerate_points(x0, dx, ys) ==
    [i \in 1..Len(ys) |-> <<x0 + (dx * (i - 1)), ys[i]>>]

\* find_trend
find_trend(ys, dx) == simple_slope(enumerate_points(0, dx, ys))

RECURSIVE SeqsUpTo(_, _)
SeqsUpTo(S, n) ==
    IF n = 0 THEN {<<>>}
    ELSE LET shorter == SeqsUpTo(S, n - 1)
         IN  shorter \cup {Append(s, v) : s \in shorter, v \in S}

Series == SeqsUpTo(0..MaxY, MaxLen)

\* first x coordinates of the series handed to simple_slope directly
X0s == {0, 10}

InitTrend ==
    /\ y_values \in Series
    /\ delta_x \in 0..MaxDX
    /\ points = <<>>
    /\ called = "none"
    /\ result = NoResult
    /\ HistoryIdle
    /\ PolicyIdle
    /\ LoopIdle
    /\ PubSubIdle
    /\ ProbesIdle

\* find_trend(y_values, delta_x)
CallFindTrend ==
    /\ called = "none"
    /\ called' = "find_trend"
    /\ points' = enumerate_points(0, delta_x, y_values)
    /\ result' = find_trend(y_values, delta_x)
    /\ UNCHANGED <<y_values, delta_x>>
    /\ UNCHANGED histVars
    /\ UNCHANGED policyVars
    /\ UNCHANGED loopVars
    /\ UNCHANGED pubsubVars
    /\ UNCHANGED probeVars

\* simple_slope(values) on an equally spaced series that starts at any x0
CallSimpleSlope ==
    /\ called = "none"
    /\ called' = "simple_slope"
    /\ \E x0 \in X0s :
          /\ points' = enumerate_points(x0, delta_x, y_values)
          /\ result' = simple_slope(enumerate_points(x0, delta_x, y_values))
    /\ UNCHANGED <<y_values, delta_x>>
    /\ UNCHANGED histVars
    /\ UNCHANGED policyVars
    /\ UNCHANGED loopVars
    /\ UNCHANGED pubsubVars
    /\ UNCHANGED probeVars

NextTrend == CallFindTrend \/ CallSimpleSlope

SpecTrend == InitTrend /\ [][NextTrend]_vars

\* C7: the estimator returns exactly 0.0, without raising, for an empty
\* sequence and for every single-element sequence.
C7_ShortSeriesZero ==
    (called \in {"simple_slope", "find_trend"} /\ Len(points) <= 1)
        => result = Return(R(0))

\* a single point, off the origin, with a spacing of 0 that would divide by 0
C7_Witness ==
    /\ called = "simple_slope"
    /\ Len(points) = 1
    /\ points[1][1] # 0
    /\ delta_x = 0
    /\ result.exc = "none"

\* Integer quantities of a series ys, computed apart from the estimator.
RECURSIVE SumTo(_, _)
SumTo(ys, k) == IF k = 0 THEN 0 ELSE ys[k] + SumTo(ys, k - 1)

RECURSIVE SumSqTo(_, _)
SumSqTo(ys, k) == IF k = 0 THEN 0 ELSE (ys[k] * ys[k]) + SumSqTo(ys, k - 1)

\* the sum of the consecutive deltas of ys
DeltaSum(ys) == ys[Len(ys)] - ys[1]

\* every pair of consecutive values of ys differs by the same delta
ConstantDelta(ys) ==
    \A i \in 1..(Len(ys) - 1) : ys[i + 1] - ys[i] = ys[2] - ys[1]

\* (number of values)^2 times the population variance of ys: orders series of
\* one length by the dispersion of their values
Dispersion(ys) == (Len(ys) * SumSqTo(ys, Len(ys))) - (SumTo(ys, Len(ys)) * SumTo(ys, Len(ys)))

Called == called \in {"simple_slope", "find_trend"}

\* C8 as stated: a series of >= 2 equally spaced points with one y-delta dy
\* between all consecutive points yields exactly dy/dx.
C8_ConstantDeltaYieldsDelta ==
    (Called /\ Len(y_values) >= 2 /\ delta_x # 0 /\ ConstantDelta(y_values))
        => result = Return(RNorm(y_values[2] - y_values[1], delta_x))

\* C9 as stated: the result is avg_slope * (1 + variance_y/100) with the mean
\* and the variance (divisor n) taken over the first n values only.  With
\* D the sum of deltas, S and Q the sum and the sum of squares of the first n
\* values, that is  D * (100*n^2 + n*Q - S^2) / (100 * n^3 * dx).
C9_VarianceOfFirstN ==
    (Called /\ Len(y_values) >= 2 /\ delta_x # 0) =>
        LET n == Len(y_values) - 1
            D == DeltaSum(y_values)
            S == SumTo(y_values, n)
            Q == SumSqTo(y_values, n)
        IN  /\ result.exc = "none"
            /\ result.val[1] * (100 * n * n * n * delta_x)
                 = result.val[2] * D * ((100 * n * n) + (n * Q) - (S * S))

\* C9, amended: the mean is taken over all n+1 values, and the variance is
\* the sum of the squared deviations of all n+1 values divided by n.  With
\* S and Q over all n+1 values, the result is
\*    D * (100*n*(n+1) + (n+1)*Q - S^2) / (100 * n^2 * (n+1) * dx).
C9_VarianceOfAllValues ==
    (Called /\ Len(y_values) >= 2 /\ delta_x # 0) =>
        LET n == Len(y_values) - 1
            D == DeltaSum(y_values)
            S == SumTo(y_values, n + 1)
            Q == SumSqTo(y_values, n + 1)
        IN  /\ result.exc = "none"
            /\ result.val[1] * (100 * n * n * (n + 1) * delta_x)
                 = result.val[2] * D
                     * ((100 * n * (n + 1)) + ((n + 1) * Q) - (S * S))

\* a sloped series of three or more values whose final value changes both the
\* mean and the spread
C9_Witness ==
    /\ called = "find_trend"
    /\ Len(y_values) >= 3
    /\ delta_x >= 2
    /\ DeltaSum(y_values) # 0
    /\ y_values[Len(y_values)] # y_values[1]
    /\ y_values[Len(y_values)] # y_values[2]
    /\ result.exc = "none"
    /\ result.val # R(0)

\* the series of the same length as y_values with the same mean delta and a
\* larger dispersion
MoreDispersed ==
    {other \in Series :
        /\ Len(other) = Len(y_values)
        /\ DeltaSum(other) = DeltaSum(y_values)
        /\ Dispersion(y_values) < Dispersion(other)}

\* simple_slope of another series on the x coordinates of points
SlopeOf(other) ==
    simple_slope(enumerate_points(points[1][1], delta_x, other))

-----------------------------------------------------------------------------
(* Fan.set_speed (smoke/fan.py) and the decision tree of maintain          *)
(* (smoke/maintain.py).                                                    *)

\* map speed ints to PWM duty cycles
SPEEDS == <<0, 35, 65, 90>>

\* SPEEDS[speed], a Python list index: 0..3 from the front, -1..-4 from the
\* back, IndexError for anything else
set_speed(d, speed) ==
    IF speed >= 0 /\ speed < Len(SPEEDS)
    THEN [exc |-> "none", duty |-> SPEEDS[speed + 1]]
    ELSE IF speed < 0 /\ speed >= 0 - Len(SPEEDS)
    THEN [exc |-> "none", duty |-> SPEEDS[Len(SPEEDS) + speed + 1]]
    ELSE [exc |-> "IndexError", duty |-> d]

\* the set_speed calls of one tick applied in order, stopping at a raise
RECURSIVE run_commands(_, _)
run_commands(d, levels) ==
    IF levels = <<>> THEN [exc |-> "none", duty |-> d]
    ELSE LET first == set_speed(d, Head(levels))
         IN  IF first.exc # "none" THEN first
             ELSE run_commands(first.duty, Tail(levels))

\* the set_speed calls actually made: those up to and including the first
\* one that raises
RECURSIVE calls_made(_, _)
calls_made(d, levels) ==
    IF levels = <<>> THEN <<>>
    ELSE LET first == set_speed(d, Head(levels))
         IN  IF first.exc # "none" THEN <<Head(levels)>>
             ELSE <<Head(levels)>> \o calls_made(first.duty, Tail(levels))

PRECISION == 5

DIFFS ==
    [large  |-> PRECISION * 10,
     medium |-> PRECISION * 5,
     small  |-> PRECISION]

TRENDS ==
    [large  |-> RDiv(R(PRECISION), R(10)).val,
     medium |-> RDiv(R(PRECISION), R(100)).val,
     small  |-> RDiv(R(PRECISION), R(1000)).val]

\* "if cond: fan.set_speed(level)": the call made, if any
When(cond, level) == IF cond THEN <<level>> ELSE <<>>

\* a plausible slip: the first test made against the large band
decision_off_below_large(d, t) ==
    IF d < (0 - DIFFS.large) THEN <<0>>
    ELSE IF d > DIFFS.large
    THEN When(RLt(t, TRENDS.small), 3)
            \o When(RLt(t, TRENDS.medium), 2)
            \o When(RLt(t, TRENDS.large), 1)
    ELSE IF d > DIFFS.medium
    THEN When(RLt(t, TRENDS.small), 2)
            \o When(RLt(t, TRENDS.medium), 1)
            \o When(RLt(t, TRENDS.large), 0)
            \o When(RLt(t, TRENDS.small), 1)
            \o When(RLt(t, TRENDS.medium), 0)
    ELSE <<>>

\* a plausible slip: the last elif tests the small band, not the medium one
decision_elif_small(d, t) ==
    IF d < (0 - PRECISION) THEN <<0>>
    ELSE IF d > DIFFS.large
    THEN When(RLt(t, TRENDS.small), 3)
            \o When(RLt(t, TRENDS.medium), 2)
            \o When(RLt(t, TRENDS.large), 1)
    ELSE IF d > DIFFS.small
    THEN When(RLt(t, TRENDS.small), 2)
            \o When(RLt(t, TRENDS.medium), 1)
            \o When(RLt(t, TRENDS.large), 0)
            \o When(RLt(t, TRENDS.small), 1)
            \o When(RLt(t, TRENDS.medium), 0)
    ELSE <<>>

\* a plausible slip: the fastest speed written as 4, the number the error
\* message of Fan.set_speed names
decision_speed_four(d, t) ==
    IF d < (0 - PRECISION) THEN <<0>>
    ELSE IF d > DIFFS.large
    THEN When(RLt(t, TRENDS.small), 4)
            \o When(RLt(t, TRENDS.medium), 2)
            \o When(RLt(t, TRENDS.large), 1)
    ELSE IF d > DIFFS.medium
    THEN When(RLt(t, TRENDS.small), 2)
            \o When(RLt(t, TRENDS.medium), 1)
            \o When(RLt(t, TRENDS.large), 0)
            \o When(RLt(t, TRENDS.small), 1)
            \o When(RLt(t, TRENDS.medium), 0)
    ELSE <<>>

\* the if / elif / elif of maintain: the levels passed to fan.set_speed, in
\* the order of the calls.  Inside a branch every test is a plain "if", so
\* each one that passes makes its call; the two tests under the comment
\* "if diff is small" are indented into the medium branch.
decision(d, t) ==
    IF d < (0 - PRECISION) THEN <<0>>
    ELSE IF d > DIFFS.large
    THEN When(RLt(t, TRENDS.small), 3)
            \o When(RLt(t, TRENDS.medium), 2)
            \o When(RLt(t, TRENDS.large), 1)
    ELSE IF d > DIFFS.medium
    THEN When(RLt(t, TRENDS.small), 2)
            \o When(RLt(t, TRENDS.medium), 1)
            \o When(RLt(t, TRENDS.large), 0)
            \o When(RLt(t, TRENDS.small), 1)
            \o When(RLt(t, TRENDS.medium), 0)
    ELSE <<>>

MinTemp == 45    \* readings range over MinTemp..MaxTemp
MaxTemp == 115

Targets == {100, 107}

\* trend values, in thousandths: below, on and between the three trend bands
TrendMillis == {0 - 500, 0, 4, 5, 10, 50, 100, 500, 1000}
Trends == {RNorm(k, 1000) : k \in TrendMillis}

Duties == {SPEEDS[i] : i \in 1..Len(SPEEDS)}

\* the duty cycle of a speed level 0..3
DutyOf(level) == SPEEDS[level + 1]

\* readings of the food probe
FoodTemps == {20, 90}

\* a plausible slip: the tests under the comment "if diff is small" read as a
\* branch of their own, taken when the deviation is not above the medium band
decision_lines_small_branch(d, t) ==
    IF d < (0 - PRECISION) THEN <<104>>
    ELSE IF d > DIFFS.large
    THEN When(RLt(t, TRENDS.small), 110)
            \o When(RLt(t, TRENDS.medium), 113)
            \o When(RLt(t, TRENDS.large), 116)
    ELSE IF d > DIFFS.medium
    THEN When(RLt(t, TRENDS.small), 122)
            \o When(RLt(t, TRENDS.medium), 125)
            \o When(RLt(t, TRENDS.large), 128)
    ELSE When(RLt(t, TRENDS.small), 133)
            \o When(RLt(t, TRENDS.medium), 136)

\* the same if / elif / elif, by the source line of each fan.set_speed call
\* made, in the order of the calls
decision_lines(d, t) ==
    IF d < (0 - PRECISION) THEN <<104>>
    ELSE IF d > DIFFS.large
    THEN When(RLt(t, TRENDS.small), 110)
            \o When(RLt(t, TRENDS.medium), 113)
            \o When(RLt(t, TRENDS.large), 116)
    ELSE IF d > DIFFS.medium
    THEN When(RLt(t, TRENDS.small), 122)
            \o When(RLt(t, TRENDS.medium), 125)
            \o When(RLt(t, TRENDS.large), 128)
            \o When(RLt(t, TRENDS.small), 133)
            \o When(RLt(t, TRENDS.medium), 136)
    ELSE <<>>

\* a plausible slip: the deviation taken from the food probe
tick_commands_by_food(tgt, air, food, t) == decision(tgt - food, t)

\* the set_speed levels of one tick, from everything the tick has in scope:
\* only target, the air reading and the trend are used
tick_commands(tgt, air, food, t) == decision(tgt - air, t)

\* maintain entered with any fan, at the first reading and trend
InitPolicy ==
    /\ pc = "decide"
    /\ target \in Targets
    /\ current_temp \in MinTemp..MaxTemp
    /\ trend \in Trends
    /\ diff = 0
    /\ duty \in Duties
    /\ duty_before = duty
    /\ cmds = <<>>
    /\ cmd_lines = <<>>
    /\ exc = "none"
    /\ pwm = "running"
    /\ food_temp \in FoodTemps
    /\ air_read = Return(R(current_temp))
    /\ HistoryIdle
    /\ TrendIdle
    /\ PubSubIdle
    /\ ProbesIdle

\* diff = target - current_temp and the status lines (which read the food
\* probe and print it), then the decision tree and its set_speed calls
Decide ==
    /\ pc = "decide"
    /\ diff' = target - current_temp
    /\ cmds' = calls_made(duty,
                 tick_commands(target, current_temp, food_temp, trend))
    /\ LET lines == decision_lines(target - current_temp, trend)
       IN  cmd_lines' = SubSeq(lines, 1, Min(Len(cmds'), Len(lines)))
    /\ LET done == run_commands(duty,
                       tick_commands(target, current_temp, food_temp, trend))
       IN  /\ duty' = done.duty
           /\ exc' = done.exc
           /\ pc' = IF done.exc = "none" THEN "sleep" ELSE "raised"
    /\ UNCHANGED <<target, current_temp, trend, duty_before, pwm, food_temp,
                   air_read>>
    /\ UNCHANGED histVars
    /\ UNCHANGED trendVars
    /\ UNCHANGED pubsubVars
    /\ UNCHANGED probeVars

\* print(f'Air temp: {air}') or print(f'Food temp: {food}'): Probe.__str__
\* reads the probe again, and a read that fails (resistance() divides by 0 on
\* an ADC value of 0 or 65535) ends maintain before the decision tree
StatusRaises ==
    /\ pc = "decide"
    /\ diff' = target - current_temp
    /\ exc' = "ZeroDivisionError"
    /\ pc' = "raised"
    /\ UNCHANGED <<target, current_temp, trend, duty, duty_before, cmds,
                   cmd_lines, pwm,
                   food_temp, air_read>>
    /\ UNCHANGED histVars
    /\ UNCHANGED trendVars
    /\ UNCHANGED pubsubVars
    /\ UNCHANGED probeVars

\* sleep(SAMPLE_RATE), then the next iteration's reading and trend
NextTick ==
    /\ pc = "sleep"
    /\ pc' = "decide"
    /\ current_temp' \in MinTemp..MaxTemp
    /\ trend' \in Trends
    /\ duty_before' = duty
    /\ cmds' = <<>>
    /\ cmd_lines' = <<>>
    /\ food_temp' \in FoodTemps
    /\ air_read' = Return(R(current_temp'))
    /\ UNCHANGED <<target, diff, duty, exc, pwm>>
    /\ UNCHANGED histVars
    /\ UNCHANGED trendVars
    /\ UNCHANGED pubsubVars
    /\ UNCHANGED probeVars

NextPolicy == Decide \/ StatusRaises \/ NextTick

SpecPolicy == InitPolicy /\ [][NextPolicy]_vars

\* the tick's set_speed calls are done and the loop is at its sleep
TickDone == pc = "sleep"

\* C3: when diff < -PRECISION the fan is Off at the end of the tick, for every
\* trend and every previous speed.
C3_BelowTargetOff ==
    (TickDone /\ diff < 0 - PRECISION) => duty = DutyOf(0)

\* a fan at High, a rising trend above the large band, just past -PRECISION
C3_Witness ==
    /\ TickDone
    /\ diff = 0 - PRECISION - 1
    /\ duty_before = DutyOf(3)
    /\ ~RLt(trend, TRENDS.large)
    /\ duty = DutyOf(0)

\* C4 as stated: diff > large band and trend < small band leaves the fan at
\* High.
C4_LargeDiffSmallTrendHigh ==
    (TickDone /\ diff > DIFFS.large /\ RLt(trend, TRENDS.small))
        => duty = DutyOf(3)

\* C5 as stated: medium band < diff <= large band leaves the fan at Medium,
\* Low or Off by the trend's band.
C5_MediumDiffRow ==
    (TickDone /\ diff > DIFFS.medium /\ ~(diff > DIFFS.large)) =>
        /\ RLt(trend, TRENDS.small) => duty = DutyOf(2)
        /\ (~RLt(trend, TRENDS.small) /\ RLt(trend, TRENDS.medium))
              => duty = DutyOf(1)
        /\ (~RLt(trend, TRENDS.medium) /\ RLt(trend, TRENDS.large))
              => duty = DutyOf(0)

\* C6: with -PRECISION <= diff, diff not above the medium band and trend at or
\* above the medium trend band, the tick issues no fan command and leaves the
\* speed as it was.
C6_InsignificantNoAction ==
    (TickDone /\ diff >= 0 - PRECISION /\ ~(diff > DIFFS.medium)
        /\ ~RLt(trend, TRENDS.medium))
        => (cmds = <<>> /\ duty = duty_before)

\* a running fan, a deviation between the small and the medium band, a trend
\* between the medium and the large band
C6_Witness ==
    /\ TickDone
    /\ diff > DIFFS.small
    /\ diff <= DIFFS.medium
    /\ ~RLt(trend, TRENDS.medium)
    /\ RLt(trend, TRENDS.large)
    /\ duty_before = DutyOf(2)
    /\ duty = DutyOf(2)

\* the readings of the end-to-end scenario, whose target is 100
ScenarioReadings == {80, 85, 90, 94, 97}

\* C12 as stated: with target 100 and the readings 80, 85, 90, 94, 97 the
\* fan is commanded High on the early ticks: the tick that read 80 ends with
\* High as its last command.
C12_ScenarioStartsHigh ==
    (TickDone /\ target = 100 /\ current_temp = 80)
        => (cmds # <<>> /\ cmds[Len(cmds)] = 3)

\* C12, amended: with target 100 every reading of the scenario leaves a
\* deviation (20, 15, 10, 6, 3) inside [-PRECISION, medium band], so no tick
\* issues a fan command and the speed stays what it was: it never increases.
C12_ScenarioNoCommand ==
    (target = 100 /\ current_temp \in ScenarioReadings
        /\ pc \in {"sleep", "raised"})
        => (cmds = <<>> /\ duty = duty_before)

\* the scenario's last reading, a falling trend, a fan left at Medium
C12_Witness ==
    /\ TickDone
    /\ target = 100
    /\ current_temp = 97
    /\ diff = 3
    /\ RLt(trend, TRENDS.small)
    /\ duty_before = DutyOf(2)
    /\ duty = DutyOf(2)

\* C13: every level maintain passes to Fan.set_speed is one of 0, 1, 2, 3.
C13_LevelsInRange ==
    \A i \in 1..Len(cmds) : cmds[i] \in {0, 1, 2, 3}

\* a tick that made the three calls of the large branch, High among them
C13_Witness ==
    /\ TickDone
    /\ Len(cmds) = 3
    /\ cmds[1] = 3
    /\ exc = "none"

SmallBlockLines == {133, 136}

Ran(line) == \E i \in 1..Len(cmd_lines) : cmd_lines[i] = line

InMediumBranch == diff > DIFFS.medium /\ ~(diff > DIFFS.large)

\* C23 as stated: in no tick, for any deviation and trend, is one of the two
\* set_speed calls of the "small deviation" block executed.
C23_SmallBlockUnreachable ==
    \A i \in 1..Len(cmd_lines) : cmd_lines[i] \notin SmallBlockLines

\* C23, amended: the two calls are executed in the ticks that take the
\* medium branch, each when its own trend test passes, and in no other tick:
\* never on a deviation at or below the medium band.
C23_SmallBlockRunsInMediumBranch ==
    TickDone =>
        /\ Ran(133) <=> (InMediumBranch /\ RLt(trend, TRENDS.small))
        /\ Ran(136) <=> (InMediumBranch /\ RLt(trend, TRENDS.medium))

\* a tick in the medium branch with a trend below the small band: the three
\* calls of the branch and then the two of the block
C23_Witness ==
    /\ TickDone
    /\ InMediumBranch
    /\ cmd_lines = <<122, 125, 128, 133, 136>>
    /\ cmds = <<2, 1, 0, 1, 0>>

\* C24 as stated: in every tick the fan receives at most one set_speed
\* command.
C24_AtMostOneCommand ==
    Len(cmds) <= 1

-----------------------------------------------------------------------------
(* main (smoke/main.py) running maintain (smoke/maintain.py) as written:   *)
(* SpecLoop.  maintain calls the find_trend of its own module, a stub that *)
(* raises NotImplementedError, so the statements after line 92 are never   *)
(* reached under SpecLoop; SpecPolicy covers them for any trend value.     *)

\* history = NHistory(60)
HISTORY_LEN == 60

\* Probe.get_temp_c: a reading, or the ZeroDivisionError of resistance() on
\* an ADC value of 0 or 65535
Readings ==
    {Return(R(t)) : t \in MinTemp..MaxTemp} \cup {Raise("ZeroDivisionError")}

\* find_trend of maintain.py
maintain_find_trend(values) == Raise("NotImplementedError")

\* a plausible slip: a failed read caught and a default of 0 pushed in its place
after_read_default(values, reading) ==
    IF reading.exc # "none"
    THEN [pc |-> "find_trend", exc |-> "none", temp |-> 0,
          values |-> push(values, HISTORY_LEN, 0)]
    ELSE [pc |-> "find_trend", exc |-> "none", temp |-> reading.val[1],
          values |-> push(values, HISTORY_LEN, reading.val[1])]

\* current_temp = air.get_temp_c(); history.push(current_temp): a read that
\* raises leaves the statement, and maintain, before anything is pushed
after_read(values, reading) ==
    IF reading.exc # "none"
    THEN [pc |-> "with_exit", exc |-> reading.exc, temp |-> 0,
          values |-> values]
    ELSE [pc |-> "find_trend", exc |-> "none", temp |-> reading.val[1],
          values |-> push(values, HISTORY_LEN, reading.val[1])]

\* the with statement leaving its block calls fan.__exit__(exc_type, exc, tb);
\* Fan.__exit__ is declared with self alone, so the call raises TypeError
\* before its body (self._fan.stop(), IO.cleanup()) runs
fan_exit(nargs, output) ==
    IF nargs = 0
    THEN [exc |-> "none", pwm |-> "stopped"]
    ELSE [exc |-> "TypeError", pwm |-> output]

\* main up to the prompt: Probes([1, 2]), both probes present, Fan(2) started
\* at duty cycle 0
InitLoop ==
    /\ pc = "input"
    /\ target = 0
    /\ current_temp = 0
    /\ trend = R(0)
    /\ diff = 0
    /\ duty = 0
    /\ duty_before = 0
    /\ cmds = <<>>
    /\ cmd_lines = <<>>
    /\ exc = "none"
    /\ pwm = "running"
    /\ food_temp = 0
    /\ air_read = NoResult
    /\ h_values = <<>>
    /\ h_max = 0
    /\ pushed = <<>>
    /\ TrendIdle
    /\ PubSubIdle
    /\ ProbesIdle

\* target = float(input(...)); maintain(target, air, fan, food) entered and
\* its history built
ReadTarget ==
    /\ pc = "input"
    /\ \/ /\ target' \in Targets
          /\ pc' = "sample"
          /\ h_max' = HISTORY_LEN
          /\ exc' = "none"
       \/ /\ target' = target
          /\ pc' = "with_exit"
          /\ h_max' = h_max
          /\ exc' = "ValueError"
    /\ UNCHANGED <<current_temp, trend, diff, duty, duty_before, cmds,
                   cmd_lines, pwm,
                   food_temp, air_read, h_values, pushed>>
    /\ UNCHANGED trendVars
    /\ UNCHANGED pubsubVars
    /\ UNCHANGED probeVars

\* lines 89-90 of maintain
Sample ==
    /\ pc = "sample"
    /\ \E reading \in Readings :
          LET after == after_read(h_values, reading)
          IN  /\ pc' = after.pc
              /\ exc' = after.exc
              /\ air_read' = reading
              /\ current_temp' = IF after.exc = "none" /\ after.pc = "find_trend"
                                 THEN after.temp ELSE current_temp
              /\ h_values' = after.values
              /\ pushed' = IF reading.exc = "none"
                           THEN Append(pushed, reading.val[1])
                           ELSE pushed
    /\ UNCHANGED <<target, trend, diff, duty, duty_before, cmds,
                   cmd_lines, pwm,
                   food_temp, h_max>>
    /\ UNCHANGED trendVars
    /\ UNCHANGED pubsubVars
    /\ UNCHANGED probeVars

\* line 92 of maintain: trend = find_trend(history.get_values())
FindTrend ==
    /\ pc = "find_trend"
    /\ LET found == maintain_find_trend(get_values)
       IN  /\ exc' = found.exc
           /\ trend' = found.val
           /\ pc' = IF found.exc = "none" THEN "decide" ELSE "with_exit"
    /\ UNCHANGED <<target, current_temp, diff, duty, duty_before, cmds,
                   cmd_lines, pwm,
                   food_temp, air_read>>
    /\ UNCHANGED histVars
    /\ UNCHANGED trendVars
    /\ UNCHANGED pubsubVars
    /\ UNCHANGED probeVars

\* CTRL-C while main is inside the with block
Interrupt ==
    /\ pc \in {"input", "sample", "find_trend"}
    /\ pc' = "with_exit"
    /\ exc' = "KeyboardInterrupt"
    /\ UNCHANGED <<target, current_temp, trend, diff, duty, duty_before, cmds,
                   cmd_lines, pwm, food_temp, air_read>>
    /\ UNCHANGED histVars
    /\ UNCHANGED trendVars
    /\ UNCHANGED pubsubVars
    /\ UNCHANGED probeVars

\* the with block of main is left: fan.__exit__ is called with the three
\* exception arguments, and main ends with what that call raises
WithExit ==
    /\ pc = "with_exit"
    /\ LET left == fan_exit(3, pwm)
       IN  /\ pwm' = left.pwm
           /\ exc' = IF left.exc = "none" THEN exc ELSE left.exc
    /\ pc' = "main_done"
    /\ UNCHANGED <<target, current_temp, trend, diff, duty, duty_before, cmds,
                   cmd_lines,
                   food_temp, air_read>>
    /\ UNCHANGED histVars
    /\ UNCHANGED trendVars
    /\ UNCHANGED pubsubVars
    /\ UNCHANGED probeVars

NextLoop == ReadTarget \/ Sample \/ FindTrend \/ Interrupt \/ WithExit

SpecLoop == InitLoop /\ [][NextLoop]_vars

\* C11 as stated: the loop has no terminal state: it is left only when the
\* temperature source fails, on an interruption, or before it began.
C11_LoopOnlyEndsFromOutside ==
    pc = "with_exit" =>
        exc \in {"ZeroDivisionError", "KeyboardInterrupt", "ValueError"}

\* the last min(HISTORY_LEN, m) of the m readings that returned
ReturnedReadings ==
    SubSeq(pushed, Len(pushed) - Min(Len(pushed), HISTORY_LEN) + 1, Len(pushed))

\* C15: when the read of the temperature source fails, the history holds
\* exactly the readings that returned (nothing was pushed for the failed one,
\* no stale or default value in its place), no fan command was issued, the
\* fan is as it was, and the read's error is what leaves maintain.
C15_FailedReadPushesNothing ==
    air_read.exc \notin {"none", "not called"} =>
        /\ get_values = ReturnedReadings
        /\ cmds = <<>>
        /\ duty = duty_before
        /\ pc \in {"with_exit", "main_done"}
        /\ pc = "with_exit" => exc = air_read.exc

\* the read failed and its error is on its way out of main's with block
C15_Witness ==
    /\ air_read.exc = "ZeroDivisionError"
    /\ pc = "with_exit"
    /\ exc = "ZeroDivisionError"
    /\ target \in Targets

\* C16 as stated: whenever the loop is interrupted or ends with an error, the
\* exit handler of the with block has stopped the fan's PWM output.
C16_FanStoppedAfterMain ==
    (pc = "main_done" /\ h_max = HISTORY_LEN) => pwm = "stopped"

\* C17 as stated: constructing a History Buffer with a capacity <= 0 fails
\* with a configuration error.
C17_InvalidCapacityRejected ==
    h_max <= 0 => exc # "none"

-----------------------------------------------------------------------------
(* A Fan driven directly through set_speed (smoke/fan.py): SpecFan.        *)

MaxLevel == 5   \* levels passed to set_speed range over -(MaxLevel+1)..MaxLevel
MaxCalls == 2   \* longest sequence of set_speed calls explored

Levels == (0 - MaxLevel - 1)..MaxLevel

\* Fan(pin): the PWM output started at duty cycle 0
InitFan ==
    /\ duty = 0
    /\ duty_before = 0
    /\ cmds = <<>>
    /\ cmd_lines = <<>>
    /\ exc = "none"
    /\ pwm = "running"
    /\ pc = "idle"
    /\ target = 0
    /\ current_temp = 0
    /\ trend = R(0)
    /\ diff = 0
    /\ food_temp = 0
    /\ air_read = NoResult
    /\ HistoryIdle
    /\ TrendIdle
    /\ PubSubIdle
    /\ ProbesIdle

\* fan.set_speed(level), for any integer level
SetSpeed ==
    /\ Len(cmds) < MaxCalls
    /\ \E level \in Levels :
          LET set == set_speed(duty, level)
          IN  /\ duty' = set.duty
              /\ exc' = set.exc
              /\ cmds' = Append(cmds, level)
              /\ cmd_lines' = cmd_lines
    /\ duty_before' = duty
    /\ UNCHANGED <<pc, target, current_temp, trend, diff, pwm, food_temp,
                   air_read>>
    /\ UNCHANGED histVars
    /\ UNCHANGED trendVars
    /\ UNCHANGED pubsubVars
    /\ UNCHANGED probeVars

NextFan == SetSpeed

SpecFan == InitFan /\ [][NextFan]_vars

\* C14 as stated: set_speed raises for every level outside {0,1,2,3}, the
\* negative ones included, and leaves the duty cycle as it was; for a level in
\* {0,1,2,3} it sets the duty cycle to SPEEDS[level].
C14_InvalidLevelRaises ==
    cmds # <<>> =>
        LET level == cmds[Len(cmds)]
        IN  IF level \in {0, 1, 2, 3}
            THEN exc = "none" /\ duty = DutyOf(level)
            ELSE exc = "IndexError" /\ duty = duty_before

-----------------------------------------------------------------------------
(* ChannelSPMCAsync and ChannelSPMCThreaded (smoke/pubsub.py): SpecPubSub. *)
(* A subscriber is a callable that records its argument when its body      *)
(* ends; "sub" and "long_sub" first sleep (asyncio.sleep for the async     *)
(* channel, time.sleep in a thread), "plain" does not.  A sleep ends at    *)
(* any later time.  Subscribing happens before the publish.                *)

MaxSubs == 3   \* most subscriptions of a channel explored

Callables == {"sub", "long_sub", "plain"}
Args      == {"Hello world", "bye"}

Suspends(fn) == fn \in {"sub", "long_sub"}

\* a plausible slip: the subscribers kept as a set, each callable invoked once
make_tasks_unique(fns, arg) ==
    LET firsts == {i \in 1..Len(fns) : \A j \in 1..(i - 1) : fns[j] # fns[i]}
        F[k \in 0..Len(fns)] ==
            IF k = 0 THEN <<>>
            ELSE IF k \in firsts
                 THEN Append(F[k - 1],
                             [fn |-> fns[k], arg |-> arg, state |-> "created"])
                 ELSE F[k - 1]
    IN  F[Len(fns)]

\* [sub(arg) for sub in self._subs], and the Thread(target=sub, args=[arg])
\* of the threaded channel: one future or thread per subscription, in order
make_tasks(fns, arg) ==
    [i \in 1..Len(fns) |-> [fn |-> fns[i], arg |-> arg, state |-> "created"]]

\* a plausible slip: each thread joined right after its start, so the next
\* start waits for the thread before it to end
can_start_after_join(ts, i) == \A j \in 1..(i - 1) : ts[j].state = "done"

\* "for thread in threads: thread.start()": a start waits for nothing
can_start(ts, i) == TRUE

InState(st) == {i \in 1..Len(tasks) : tasks[i].state = st}

SetState(ts, i, st) == [ts EXCEPT ![i].state = st]

\* ChannelSPMCAsync() or ChannelSPMCThreaded()
InitPubSub ==
    /\ mode \in {"async", "threaded"}
    /\ subs = <<>>
    /\ pub_pc = "idle"
    /\ pub_arg = "none"
    /\ tasks = <<>>
    /\ joined = 0
    /\ res = <<>>
    /\ HistoryIdle
    /\ TrendIdle
    /\ PolicyIdle
    /\ LoopIdle
    /\ ProbesIdle

\* chn.sub(fn)
Subscribe ==
    /\ pub_pc = "idle"
    /\ Len(subs) < MaxSubs
    /\ \E fn \in Callables : subs' = Append(subs, fn)
    /\ UNCHANGED <<mode, pub_pc, pub_arg, tasks, joined, res>>

\* pub(arg) up to its list of futures (async, line 32) or of threads
\* (threaded, lines 52-58)
PubCreate ==
    /\ pub_pc = "idle"
    /\ \E arg \in Args :
          /\ pub_arg' = arg
          /\ tasks' = make_tasks(subs, arg)
    /\ pub_pc' = "starting"
    /\ UNCHANGED <<mode, subs, joined, res>>

\* await gather(*futures): every coroutine becomes a scheduled task, and pub
\* is suspended until all of them are done
Gather ==
    /\ mode = "async"
    /\ pub_pc = "starting"
    /\ tasks' = [i \in 1..Len(tasks) |-> [tasks[i] EXCEPT !.state = "started"]]
    /\ pub_pc' = "waiting"
    /\ UNCHANGED <<mode, subs, pub_arg, joined, res>>

\* thread.start() of the next thread of the list
StartThread ==
    /\ mode = "threaded"
    /\ pub_pc = "starting"
    /\ \E i \in InState("created") :
          /\ \A j \in 1..(i - 1) : tasks[j].state # "created"
          /\ can_start(tasks, i)
          /\ tasks' = SetState(tasks, i, "started")
    /\ UNCHANGED <<mode, subs, pub_pc, pub_arg, joined, res>>

\* return threads
ReturnThreads ==
    /\ mode = "threaded"
    /\ pub_pc = "starting"
    /\ InState("created") = {}
    /\ pub_pc' = "returned"
    /\ UNCHANGED <<mode, subs, pub_arg, tasks, joined, res>>

\* a subscriber's body begins: it runs to its sleep, or to its end if it has
\* none.  The event loop runs the scheduled tasks in their order.
Begin(i) ==
    /\ tasks[i].state = "started"
    /\ mode = "async" =>
          /\ pub_pc = "waiting"
          /\ \A j \in 1..(i - 1) : tasks[j].state # "started"
    /\ IF Suspends(tasks[i].fn)
       THEN /\ tasks' = SetState(tasks, i, "sleeping")
            /\ res' = res
       ELSE /\ tasks' = SetState(tasks, i, "done")
            /\ res' = Append(res, <<tasks[i].fn, tasks[i].arg>>)
    /\ UNCHANGED <<mode, subs, pub_pc, pub_arg, joined>>

\* a subscriber's sleep is over and its body ends.  The event loop runs every
\* scheduled task's first step before it looks at its timers.
Finish(i) ==
    /\ tasks[i].state = "sleeping"
    /\ mode = "async" => InState("started") = {}
    /\ tasks' = SetState(tasks, i, "done")
    /\ res' = Append(res, <<tasks[i].fn, tasks[i].arg>>)
    /\ UNCHANGED <<mode, subs, pub_pc, pub_arg, joined>>

\* gather's future is done: await gather(...) and with it await pub(...) return
AwaitReturns ==
    /\ mode = "async"
    /\ pub_pc = "waiting"
    /\ InState("done") = 1..Len(tasks)
    /\ pub_pc' = "returned"
    /\ UNCHANGED <<mode, subs, pub_arg, tasks, joined, res>>

\* the caller's "for thread in threads: thread.join()"
Join ==
    /\ mode = "threaded"
    /\ pub_pc = "returned"
    /\ joined < Len(tasks)
    /\ tasks[joined + 1].state = "done"
    /\ joined' = joined + 1
    /\ UNCHANGED <<mode, subs, pub_pc, pub_arg, tasks, res>>

NextPubSub ==
    /\ \/ Subscribe
       \/ PubCreate
       \/ Gather
       \/ StartThread
       \/ ReturnThreads
       \/ \E i \in 1..Len(tasks) : Begin(i)
       \/ \E i \in 1..Len(tasks) : Finish(i)
       \/ AwaitReturns
       \/ Join
    /\ UNCHANGED histVars
    /\ UNCHANGED trendVars
    /\ UNCHANGED policyVars
    /\ UNCHANGED loopVars
    /\ UNCHANGED probeVars

SpecPubSub == InitPubSub /\ [][NextPubSub]_vars

RECURSIVE Count(_, _)
Count(seq, x) ==
    IF seq = <<>> THEN 0
    ELSE (IF Head(seq) = x THEN 1 ELSE 0) + Count(Tail(seq), x)

\* await pub(arg) has returned, or every thread pub returned has been joined
PubComplete ==
    /\ pub_pc = "returned"
    /\ mode = "threaded" => joined = Len(tasks)

\* C19: when one pub(arg) is complete, every subscription has been invoked
\* exactly once with arg (a callable subscribed k times, k times) and every
\* subscriber has ended.
C19_EachSubscriptionOnce ==
    PubComplete =>
        /\ Len(res) = Len(subs)
        /\ \A fn \in Callables : Count(res, <<fn, pub_arg>>) = Count(subs, fn)
        /\ InState("done") = 1..Len(tasks)
        /\ Len(tasks) = Len(subs)

\* the publish of the tests: one callable subscribed twice beside another
C19_Witness ==
    /\ PubComplete
    /\ Len(subs) = MaxSubs
    /\ Count(subs, "sub") >= 2
    /\ Count(subs, "long_sub") = 1
    /\ Count(res, <<"sub", pub_arg>>) >= 2

\* C20: pub starts every subscriber before anything waits on one of them: as
\* long as a subscriber has not been started nothing has been joined and pub
\* has not returned, and the next start is possible whatever the subscribers
\* already started are doing.
C20_AllStartedBeforeWaiting ==
    InState("created") # {} =>
        /\ pub_pc = "starting"
        /\ joined = 0
        /\ mode = "threaded" => ENABLED StartThread
        /\ mode = "async" => ENABLED Gather

\* a fast subscriber registered after a slow one has ended while the slow one
\* still sleeps
C20_Witness ==
    /\ Len(tasks) >= 2
    /\ tasks[1].fn = "long_sub"
    /\ tasks[1].state = "sleeping"
    /\ tasks[2].fn = "sub"
    /\ tasks[2].state = "done"

-----------------------------------------------------------------------------
(* Probes (smoke/thermistor.py): SpecProbes.  A slot of _probes holds None *)
(* or a Probe; of a Probe the model keeps _num and _name.  None is         *)
(* NoneProbe for a slot, the string "None" for a name and 0 for a          *)
(* designation.  Any method is called at any time with any probe number,   *)
(* the invalid ones next to the range included.                            *)

MaxProbes == 3   \* max_probes, the number of probe slots

ProbeTemps == {20, 90}

Nums == 0..(MaxProbes + 1)

Digits == <<"0", "1", "2", "3", "4", "5", "6", "7", "8", "9">>

\* str(i) of a number 0..9
str(i) == Digits[i + 1]

NoneProbe == [num |-> 0, name |-> "None"]

IsNone(probe) == probe.num = 0

\* Probe(mcp, channel)
Probe(channel) == [num |-> channel + 1, name |-> "None"]

\* Probe.get_identifier
get_identifier(probe) ==
    IF probe.name # "None" THEN probe.name ELSE str(probe.num)

\* the value None and a float, as values of the dict temps() returns
NoneValue == [none |-> TRUE, val |-> 0]
Float(v)  == [none |-> FALSE, val |-> v]

\* output[key] = value
dict_set(d, key, value) ==
    [k \in (DOMAIN d) \cup {key} |-> IF k = key THEN value ELSE d[k]]

\* what a Probes method leaves: the exception it raised and the object's
\* fields
Left(e, ps, air, tgt) == [exc |-> e, probes |-> ps, air |-> air, target |-> tgt]

\* Probes._check_valid_probe_num: does it raise
invalid_probe_num(num) == num < 1 \/ num > MaxProbes

\* Probes.add_probe
add_probe(ps, air, tgt, num) ==
    IF invalid_probe_num(num) THEN Left("IndexError", ps, air, tgt)
    ELSE Left("none", [ps EXCEPT ![num] = Probe(num - 1)], air, tgt)

\* Probes.remove_probe
remove_probe(ps, air, tgt, num) ==
    IF invalid_probe_num(num) THEN Left("IndexError", ps, air, tgt)
    ELSE Left("none", [ps EXCEPT ![num] = NoneProbe], air, tgt)

\* a plausible slip: the test against the target designation left out
set_air_probe_unchecked(ps, air, tgt, num) ==
    IF invalid_probe_num(num) THEN Left("IndexError", ps, air, tgt)
    ELSE IF IsNone(ps[num]) THEN Left("ValueError", ps, air, tgt)
    ELSE Left("none", [ps EXCEPT ![num].name = "Air"], num, tgt)

\* Probes.set_air_probe
set_air_probe(ps, air, tgt, num) ==
    IF invalid_probe_num(num) THEN Left("IndexError", ps, air, tgt)
    ELSE IF IsNone(ps[num]) THEN Left("ValueError", ps, air, tgt)
    ELSE IF tgt = num THEN Left("ValueError", ps, air, tgt)
    ELSE Left("none", [ps EXCEPT ![num].name = "Air"], num, tgt)

\* Probes.set_target_probe
set_target_probe(ps, air, tgt, num) ==
    IF invalid_probe_num(num) THEN Left("IndexError", ps, air, tgt)
    ELSE IF IsNone(ps[num]) THEN Left("ValueError", ps, air, tgt)
    ELSE IF air = num THEN Left("ValueError", ps, air, tgt)
    ELSE Left("none", [ps EXCEPT ![num].name = "Food"], air, num)

\* Probes.unset_air_probe
unset_air_probe(ps, air, tgt) ==
    IF air # 0
    THEN IF ~IsNone(ps[air])
         THEN Left("none", [ps EXCEPT ![air].name = "None"], 0, tgt)
         ELSE Left("none", ps, 0, tgt)
    ELSE Left("none", ps, air, tgt)

\* Probes.unset_target_probe
unset_target_probe(ps, air, tgt) ==
    IF tgt # 0
    THEN IF ~IsNone(ps[tgt])
         THEN Left("none", [ps EXCEPT ![tgt].name = "None"], air, 0)
         ELSE Left("none", ps, air, 0)
    ELSE Left("none", ps, air, tgt)

\* Probes.get_air_probe and Probes.get_target_probe, on the designation:
\* the exception raised and the value returned
get_designated(ps, designated) ==
    IF designated = 0 THEN [exc |-> "ValueError", val |-> NoneProbe]
    ELSE [exc |-> "none", val |-> ps[designated]]

\* Probes.temps, with readings[i] what the probe of slot i reads: the dict
\* built slot by slot, a later write to a key replacing the earlier one
temps(ps, readings) ==
    LET F[k \in 0..Len(ps)] ==
            IF k = 0 THEN <<>>
            ELSE IF IsNone(ps[k])
                 THEN dict_set(F[k - 1], str(k - 1), NoneValue)
                 ELSE dict_set(F[k - 1], get_identifier(ps[k]),
                               Float(readings[k]))
    IN  F[Len(ps)]

NoReadings == [i \in 1..MaxProbes |-> 0]

\* Probes([], max_probes)
InitProbes ==
    /\ probes = [i \in 1..MaxProbes |-> NoneProbe]
    /\ air_probe = 0
    /\ target_probe = 0
    /\ p_call = <<"__init__", 0>>
    /\ p_exc = "none"
    /\ got = NoneProbe
    /\ adc = NoReadings
    /\ temps_out = <<>>
    /\ HistoryIdle
    /\ TrendIdle
    /\ PolicyIdle
    /\ LoopIdle
    /\ PubSubIdle

\* a method that returns self or raises: the fields it leaves; nothing is
\* kept of an earlier getter's or temps()'s return value
Leave(name, num, left) ==
    /\ p_call' = <<name, num>>
    /\ p_exc' = left.exc
    /\ probes' = left.probes
    /\ air_probe' = left.air
    /\ target_probe' = left.target
    /\ got' = NoneProbe
    /\ adc' = NoReadings
    /\ temps_out' = <<>>

AddProbe ==
    \E num \in Nums :
        Leave("add_probe", num, add_probe(probes, air_probe, target_probe, num))

RemoveProbe ==
    \E num \in Nums :
        Leave("remove_probe", num,
              remove_probe(probes, air_probe, target_probe, num))

SetAirProbe ==
    \E num \in Nums :
        Leave("set_air_probe", num,
              set_air_probe(probes, air_probe, target_probe, num))

UnsetAirProbe ==
    Leave("unset_air_probe", 0,
          unset_air_probe(probes, air_probe, target_probe))

SetTargetProbe ==
    \E num \in Nums :
        Leave("set_target_probe", num,
              set_target_probe(probes, air_probe, target_probe, num))

UnsetTargetProbe ==
    Leave("unset_target_probe", 0,
          unset_target_probe(probes, air_probe, target_probe))

GetAirProbe ==
    /\ p_call' = <<"get_air_probe", 0>>
    /\ p_exc' = get_designated(probes, air_probe).exc
    /\ got' = get_designated(probes, air_probe).val
    /\ adc' = NoReadings
    /\ temps_out' = <<>>
    /\ UNCHANGED <<probes, air_probe, target_probe>>

GetTargetProbe ==
    /\ p_call' = <<"get_target_probe", 0>>
    /\ p_exc' = get_designated(probes, target_probe).exc
    /\ got' = get_designated(probes, target_probe).val
    /\ adc' = NoReadings
    /\ temps_out' = <<>>
    /\ UNCHANGED <<probes, air_probe, target_probe>>

Temps ==
    /\ p_call' = <<"temps", 0>>
    /\ p_exc' = "none"
    /\ \E readings \in [1..MaxProbes -> ProbeTemps] :
          /\ adc' = readings
          /\ temps_out' = temps(probes, readings)
    /\ got' = NoneProbe
    /\ UNCHANGED <<probes, air_probe, target_probe>>

NextProbes ==
    /\ \/ AddProbe
       \/ RemoveProbe
       \/ SetAirProbe
       \/ UnsetAirProbe
       \/ SetTargetProbe
       \/ UnsetTargetProbe
       \/ GetAirProbe
       \/ GetTargetProbe
       \/ Temps
    /\ UNCHANGED histVars
    /\ UNCHANGED trendVars
    /\ UNCHANGED policyVars
    /\ UNCHANGED loopVars
    /\ UNCHANGED pubsubVars

SpecProbes == InitProbes /\ [][NextProbes]_vars

\* C21 as stated: get_air_probe() and get_target_probe() either raise
\* ValueError or return a Probe, never None.
C21_GetterNeverNone ==
    p_call[1] \in {"get_air_probe", "get_target_probe"} =>
        \/ p_exc = "ValueError"
        \/ p_exc = "none" /\ ~IsNone(got)

\* C22 as stated: temps() has one entry per slot, every initialised probe's
\* entry holds the temperature that probe read, every uninitialised slot's
\* entry (under its index) is None.
C22_TempsReportsAllSlots ==
    p_call[1] = "temps" =>
        /\ Cardinality(DOMAIN temps_out) = MaxProbes
        /\ \A i \in 1..MaxProbes :
              IF IsNone(probes[i])
              THEN /\ str(i - 1) \in DOMAIN temps_out
                   /\ temps_out[str(i - 1)] = NoneValue
              ELSE /\ get_identifier(probes[i]) \in DOMAIN temps_out
                   /\ temps_out[get_identifier(probes[i])] = Float(adc[i])

\* a set_air_probe(n) or set_target_probe(n) step taken while n is the other
\* designation
WouldClash(n) ==
    \/ p_call' = <<"set_air_probe", n>> /\ target_probe = n
    \/ p_call' = <<"set_target_probe", n>> /\ air_probe = n

\* C25: the air and the target designation never name the same probe number,
\* and a set_* call that would make them equal raises ValueError and changes
\* neither designation nor any probe (so no name).
C25_DesignationsDistinct ==
    /\ [](air_probe # 0 => air_probe # target_probe)
    /\ [][\A n \in 1..MaxProbes :
            WouldClash(n) =>
                /\ p_exc' = "ValueError"
                /\ UNCHANGED <<probes, air_probe, target_probe>>]_vars

\* both designations made, then set_air_probe on the target probe, which is
\* set up: the call raised from its test against the target designation
C25_Witness ==
    /\ air_probe # 0
    /\ target_probe # 0
    /\ p_call = <<"set_air_probe", target_probe>>
    /\ p_exc = "ValueError"
    /\ ~IsNone(probes[target_probe])
    /\ probes[target_probe].name = "Food"
    /\ probes[air_probe].name = "Air"

\* C26 as stated: a probe is named "Air" exactly if it is the designated air
\* probe and "Food" exactly if it is the designated target probe.
C26_NamesAgreeWithDesignations ==
    \A i \in 1..MaxProbes :
        ~IsNone(probes[i]) =>
            /\ probes[i].name = "Air" <=> air_probe = i
            /\ probes[i].name = "Food" <=> target_probe = i

====
